---- MODULE Spec2Model ----
(***************************************************************************)
(* CustomTransform (butterfree/transform/transformations/custom_transform) *)
(* as a state machine: one component instance, its stored transformer, its *)
(* exposed keyword mapping, its parent binding, and the record of the      *)
(* transform calls made on it.                                             *)
(***************************************************************************)
EXTENDS Integers, Sequences, FiniteSets, TLC

\* ------------------------------------------------------------------ bounds
\* transform calls recorded between two changes of the component
MaxCalls == 3
\* rows of a table fed to the docstring's divide example
MaxRows == 2
\* feature1 / feature2 range over 0..MaxVal in the divide example
MaxVal == 2

\* ------------------------------------------------------------ value model
\* Python's None
None == "None"

\* Spark cell values: a long, a double (an exact reduced fraction), a null
Long(n) == [t |-> "long", num |-> n, den |-> 1]

Null == [t |-> "null", num |-> 0, den |-> 1]

RECURSIVE Gcd(_, _)
Gcd(a, b) == IF b = 0 THEN a ELSE Gcd(b, a % b)

Double(n, d) == [t |-> "double", num |-> n \div Gcd(n, d), den |-> d \div Gcd(n, d)]

\* the table columns of the docstring example (timestamp left out)
ColNames == {"feature1", "feature2"}

Row(f1, f2) == [id |-> Long(1), feature1 |-> Long(f1), feature2 |-> Long(f2)]

Table(rows) == [columns |-> {"id", "feature1", "feature2"}, rows |-> rows]

NoTable == [columns |-> {}, rows |-> <<>>]

\* all tables of at most n rows with feature values in 0..v
Tables(n, v) ==
  LET R == {Row(a, b) : a \in 0..v, b \in 0..v}
  IN  {Table(s) : s \in UNION {[1..k -> R] : k \in 0..n}}

\* the tables the pipeline feeds the component in the general specification
Datasets == {Table(<<>>), Table(<<Row(200, 200), Row(300, 300)>>), Table(<<Row(300, 200)>>)}

\* the tables of the divide example
DivideInputs == Tables(MaxRows, MaxVal)

\* ------------------------------------------------ parent (FeatureDescriptor)
Parents == {"featureA", "featureB"}

ParentName(p) == IF p = "featureA" THEN "feature" ELSE "ratio"

\* parent_feature.get_output_columns()[0]
ParentOutputColumn(p) == ParentName(p)

\* ------------------------------------------------------ keyword arguments
ArgNames == {"column1", "column2"}

KwargMaps == UNION {[S -> ColNames] : S \in SUBSET ArgNames}

NoKwargs == <<>>

DivideKwargs == [column1 |-> "feature1", column2 |-> "feature2"]

\* the keyword bags handed to the constructor
CtorKwargs == {NoKwargs, DivideKwargs, [column1 |-> "feature2"]}

\* ------------------------------------------------------------ transformers
\* callables a pipeline author may supply; emptyPipeline is a callable
\* container with no steps (len 0, falsy) that returns its input
Callables == {"divide", "passthrough", "failing", "sample", "emptyPipeline"}

TransformerValues == Callables \cup {None}

IsEmpty(t) == t = "emptyPipeline"

Deterministic(t) == t # "sample"

\* ---------------------------------------------------------------- outcomes
NoError == [type |-> "", feature |-> ""]

Return(v) == [kind |-> "return", value |-> v, error |-> NoError]

Raise(type) == [kind |-> "raise", value |-> NoTable, error |-> [type |-> type, feature |-> ""]]

\* ------------------------------------------------------------ Spark pieces
\* faulty variant: integral division, a long instead of a double
DivideIntegral(a, b) ==
  IF a.t = "null" \/ b.t = "null" \/ b.num = 0 THEN Null
  ELSE Long(a.num \div b.num)

\* F.col(a) / F.col(b): a double, null on a zero divisor
Divide(a, b) ==
  IF a.t = "null" \/ b.t = "null" \/ b.num = 0 THEN Null
  ELSE Double(a.num * b.den, a.den * b.num)

\* df.withColumn(name, column): adds the column, or replaces one of that name;
\* vals[i] is the column's value in row i
WithColumn(df, name, vals) ==
  [columns |-> df.columns \cup {name},
   rows |-> [i \in DOMAIN df.rows |->
              [c \in df.columns \cup {name} |->
                 IF c = name THEN vals[i] ELSE df.rows[i][c]]]]

\* the docstring's divide(df, parent_feature, column1, column2)
DivideFn(df, parent, kw) ==
  IF DOMAIN kw # ArgNames THEN Raise("TypeError")
  ELSE IF parent = None THEN Raise("AttributeError")
  ELSE IF ~({kw["column1"], kw["column2"]} \subseteq df.columns) THEN Raise("AnalysisException")
  ELSE Return(WithColumn(df, ParentOutputColumn(parent),
                [i \in DOMAIN df.rows |->
                   Divide(df.rows[i][kw["column1"]], df.rows[i][kw["column2"]])]))

\* what calling the transformer t with (df, parent, **kw) can produce
Invoke(t, df, parent, kw) ==
  CASE t = "divide" -> {DivideFn(df, parent, kw)}
    [] t = "failing" -> {Raise("RuntimeError")}
    [] t = "sample" -> {Return(df), Return([df EXCEPT !.rows = <<>>])}
    [] OTHER -> {Return(df)}

\* -------------------------------------------------------------------- state
\* status               "none" until __init__ has returned an instance, then "live"
\* _transformer         the stored callable (line 74)
\* transformer__kwargs  the exposed keyword mapping (line 63)
\* _parent              the bound parent feature, None while unbound (line 79)
\* ctorKwargs           the keyword arguments as given to __init__ (line 60)
\* kwargsTouched        whether the exposed mapping was written after __init__
\* calls                the transform calls made since the component last changed
\* last                 the last operation, its argument and its outcome
VARIABLES status, _transformer, transformer__kwargs, _parent,
          ctorKwargs, kwargsTouched, calls, last

vars == <<status, _transformer, transformer__kwargs, _parent,
          ctorKwargs, kwargsTouched, calls, last>>

Op(op, arg, error, cols) == [op |-> op, arg |-> arg, error |-> error, cols |-> cols]

Self == [transformer |-> _transformer, kwargs |-> transformer__kwargs, parent |-> _parent]

Init ==
  /\ status = "none"
  /\ _transformer = None
  /\ transformer__kwargs = NoKwargs
  /\ _parent = None
  /\ ctorKwargs = NoKwargs
  /\ kwargsTouched = FALSE
  /\ calls = <<>>
  /\ last = Op("init", "-", "", <<>>)

\* ------------------------------------------------- TransformComponent base
\* TransformComponent.__init__ leaves the component unbound
BaseInit == None

\* the parent property: the bound parent, or the not-ready failure
ParentGetter(p) ==
  IF p = None THEN [error |-> "BindingError", value |-> None]
  ELSE [error |-> "", value |-> p]

\* binding: set once; binding the same parent again changes nothing, binding
\* another parent is refused
BindResult(cur, p) ==
  IF cur = None \/ cur = p THEN [error |-> "", parent |-> p]
  ELSE [error |-> "BindingError", parent |-> cur]

\* ------------------------------------------------------- transformer.setter
SetterNoCheck(cur, method) == [error |-> "", stored |-> method]

SetterAssignFirst(cur, method) ==
  IF method = None THEN [error |-> "ValueError", stored |-> method]
  ELSE [error |-> "", stored |-> method]

TransformerSetter(cur, method) ==
  IF method = None THEN [error |-> "ValueError", stored |-> cur]
  ELSE [error |-> "", stored |-> method]

\* ----------------------------------------------------------- output_columns
OutputColumnsAll(self) ==
  IF self.parent = None THEN [error |-> "AttributeError", cols |-> <<>>]
  ELSE [error |-> "", cols |-> <<"id", ParentName(self.parent)>>]

OutputColumns(self) ==
  IF self.parent = None THEN [error |-> "AttributeError", cols |-> <<>>]
  ELSE [error |-> "", cols |-> <<ParentName(self.parent)>>]

\* ---------------------------------------------------------------- transform
Invocation(t, df, parent, kw, o) ==
  [transformer |-> t, df |-> df, parent |-> parent, kwargs |-> kw, outcome |-> o]

Call(df, invoked, o) == [df |-> df, invoked |-> invoked, outcome |-> o]

\* faulty variant: reads the raw _parent field, as output_columns does
TransformCallRawParent(self, df) ==
  {Call(df, <<Invocation(self.transformer, df, self.parent, self.kwargs, o)>>, o) :
     o \in Invoke(self.transformer, df, self.parent, self.kwargs)}

\* faulty variant: calls the transformer a second time when it raised
TransformCallRetry(self, df) ==
  LET p == ParentGetter(self.parent)
      outs == Invoke(self.transformer, df, p.value, self.kwargs)
      inv(o) == Invocation(self.transformer, df, p.value, self.kwargs, o)
  IN  IF p.error # "" THEN {Call(df, <<>>, Raise(p.error))}
      ELSE {Call(df, <<inv(o)>>, o) : o \in {x \in outs : x.kind = "return"}}
           \cup {Call(df, <<inv(o1), inv(o2)>>, o2) :
                   o1 \in {x \in outs : x.kind = "raise"}, o2 \in outs}

\* faulty variant: wraps the transformer's error with the feature's name
TransformCallWrap(self, df) ==
  LET p == ParentGetter(self.parent)
      wrap(o) == IF o.kind = "return" THEN o
                 ELSE [o EXCEPT !.error = [type |-> "TransformExecutionError",
                                           feature |-> ParentName(p.value)]]
  IN  IF p.error # "" THEN {Call(df, <<>>, Raise(p.error))}
      ELSE {Call(df, <<Invocation(self.transformer, df, p.value, self.kwargs, o)>>, wrap(o)) :
              o \in Invoke(self.transformer, df, p.value, self.kwargs)}

\* faulty variant: forgets to forward the keyword arguments
TransformCallNoKwargs(self, df) ==
  LET p == ParentGetter(self.parent)
  IN  IF p.error # "" THEN {Call(df, <<>>, Raise(p.error))}
      ELSE {Call(df, <<Invocation(self.transformer, df, p.value, NoKwargs, o)>>, o) :
              o \in Invoke(self.transformer, df, p.value, NoKwargs)}

\* self.transformer(dataframe, self.parent, **self.transformer__kwargs): the
\* arguments are evaluated first, so an unbound parent fails before the call
TransformCall(self, df) ==
  LET p == ParentGetter(self.parent)
  IN  IF p.error # "" THEN {Call(df, <<>>, Raise(p.error))}
      ELSE {Call(df, <<Invocation(self.transformer, df, p.value, self.kwargs, o)>>, o) :
              o \in Invoke(self.transformer, df, p.value, self.kwargs)}

\* faulty variant: the call drops the parent binding
AfterTransformUnbound(self) == [self EXCEPT !.parent = None]

\* faulty variant: the call consumes the keyword mapping
AfterTransformKwargsConsumed(self) == [self EXCEPT !.kwargs = NoKwargs]

\* the instance's fields after transform: the method assigns none of them
AfterTransform(self) == self

\* --------------------------------------------------------------- operations
\* CustomTransform(transformer=t, **kw)
Construct(t, kw) ==
  /\ status = "none"
  /\ LET set == TransformerSetter(BaseInit, t)
     IN  IF set.error # ""
         THEN /\ last' = Op("construct", t, set.error, <<>>)
              /\ UNCHANGED <<status, _transformer, transformer__kwargs, _parent,
                             ctorKwargs, kwargsTouched, calls>>
         ELSE /\ status' = "live"
              /\ _parent' = BaseInit
              /\ _transformer' = set.stored
              /\ transformer__kwargs' = kw
              /\ ctorKwargs' = kw
              /\ kwargsTouched' = FALSE
              /\ calls' = <<>>
              /\ last' = Op("construct", t, "", <<>>)

\* instance.transformer = method
SetTransformer(method) ==
  /\ status = "live"
  /\ LET set == TransformerSetter(_transformer, method)
     IN  /\ _transformer' = set.stored
         /\ last' = Op("set_transformer", method, set.error, <<>>)
  /\ calls' = <<>>
  /\ UNCHANGED <<status, transformer__kwargs, _parent, ctorKwargs, kwargsTouched>>

\* the owning feature binds the component to itself
Bind(p) ==
  /\ status = "live"
  /\ LET b == BindResult(_parent, p)
     IN  /\ _parent' = b.parent
         /\ last' = Op("bind", p, b.error, <<>>)
  /\ calls' = <<>>
  /\ UNCHANGED <<status, _transformer, transformer__kwargs, ctorKwargs, kwargsTouched>>

\* instance.output_columns
GetOutputColumns ==
  /\ status = "live"
  /\ LET r == OutputColumns(Self)
     IN  last' = Op("output_columns", "-", r.error, r.cols)
  /\ UNCHANGED <<status, _transformer, transformer__kwargs, _parent,
                 ctorKwargs, kwargsTouched, calls>>

\* instance.transform(df)
Transform(df) ==
  /\ status = "live"
  /\ Len(calls) < MaxCalls
  /\ \E c \in TransformCall(Self, df) :
       /\ calls' = Append(calls, c)
       /\ last' = Op("transform", "-", c.outcome.error.type, <<>>)
  /\ LET post == AfterTransform(Self)
     IN  /\ _transformer' = post.transformer
         /\ transformer__kwargs' = post.kwargs
         /\ _parent' = post.parent
  /\ UNCHANGED <<status, ctorKwargs, kwargsTouched>>

\* instance.transformer__kwargs[k] = v
SetKwargsItem(k, v) ==
  /\ status = "live"
  /\ transformer__kwargs' =
       [a \in DOMAIN transformer__kwargs \cup {k} |->
          IF a = k THEN v ELSE transformer__kwargs[a]]
  /\ kwargsTouched' = TRUE
  /\ calls' = <<>>
  /\ last' = Op("set_kwargs_item", "-", "", <<>>)
  /\ UNCHANGED <<status, _transformer, _parent, ctorKwargs>>

\* instance.transformer__kwargs = m
ReplaceKwargs(m) ==
  /\ status = "live"
  /\ transformer__kwargs' = m
  /\ kwargsTouched' = TRUE
  /\ calls' = <<>>
  /\ last' = Op("replace_kwargs", "-", "", <<>>)
  /\ UNCHANGED <<status, _transformer, _parent, ctorKwargs>>

Next ==
  \/ \E t \in TransformerValues, kw \in CtorKwargs : Construct(t, kw)
  \/ \E m \in TransformerValues : SetTransformer(m)
  \/ \E p \in Parents : Bind(p)
  \/ GetOutputColumns
  \/ \E df \in Datasets : Transform(df)
  \/ \E k \in ArgNames, v \in ColNames : SetKwargsItem(k, v)
  \/ \E m \in KwargMaps : ReplaceKwargs(m)

Spec == Init /\ [][Next]_vars

\* ------------------------------------------- the docstring's divide example
ConstructDivide == Construct("divide", DivideKwargs)

BindFeature == \E p \in Parents : Bind(p)

TransformTable == \E df \in DivideInputs : calls = <<>> /\ Transform(df)

NextDivide == ConstructDivide \/ BindFeature \/ TransformTable

SpecDivide == Init /\ [][NextDivide]_vars

\* ------------------------------------------------------------------- claims
Bound == status = "live" /\ _parent # None

Invoked(c) == c.invoked # <<>>

\* C1 (as amended): constructing with transformer None fails with ValueError,
\* whatever the keyword arguments, and no instance results.
C1_NoneRejectedWithValueError ==
  (last.op = "construct" /\ last.arg = None)
    => (last.error = "ValueError" /\ status = "none")

\* C1 (as stated): constructing with transformer None fails with
\* ConfigurationError and no instance results.
C1_NoneRejectedWithConfigurationError ==
  (last.op = "construct" /\ last.arg = None)
    => (last.error = "ConfigurationError" /\ status = "none")

C1_Witness == last.op = "construct" /\ last.arg = None /\ last.error # ""

\* C2 (as amended): the stored transformer of an instance is never None; an
\* assignment of None fails with ValueError at assignment time and leaves the
\* previously stored transformer in place.
C2_NeverNone ==
  [][/\ status' = "live" => _transformer' # None
     /\ (last'.op = "set_transformer" /\ last'.arg = None)
          => (last'.error = "ValueError" /\ _transformer' = _transformer)]_vars

\* C2 (as stated): the stored transformer of an instance is never absent,
\* that is neither null nor empty.
C2_NeverNullOrEmpty ==
  status = "live" => (_transformer # None /\ ~IsEmpty(_transformer))

C2_Witness ==
  /\ last.op = "set_transformer" /\ last.arg = None /\ last.error = "ValueError"
  /\ status = "live" /\ _transformer \in Callables

C4_InvokedOnceWithStoredArguments ==
  Bound =>
    \A i \in DOMAIN calls :
      /\ Len(calls[i].invoked) = 1
      /\ calls[i].invoked[1].transformer = _transformer
      /\ calls[i].invoked[1].df = calls[i].df
      /\ calls[i].invoked[1].parent = _parent
      /\ calls[i].invoked[1].kwargs = transformer__kwargs
      /\ calls[i].invoked[1].outcome.kind = "return"
           => calls[i].outcome = calls[i].invoked[1].outcome

\* C4 (as stated): on a bound component every transform call invokes the
\* stored transformer exactly once, with the call's dataset, the bound parent
\* and the extra arguments captured at construction, and returns exactly what
\* the transformer returned.
C4_InvokedOnceWithConstructionArguments ==
  Bound =>
    \A i \in DOMAIN calls :
      /\ Len(calls[i].invoked) = 1
      /\ calls[i].invoked[1].transformer = _transformer
      /\ calls[i].invoked[1].df = calls[i].df
      /\ calls[i].invoked[1].parent = _parent
      /\ calls[i].invoked[1].kwargs = ctorKwargs
      /\ calls[i].invoked[1].outcome.kind = "return"
           => calls[i].outcome = calls[i].invoked[1].outcome

C4_Witness ==
  /\ Bound
  /\ \E i \in DOMAIN calls :
       /\ Invoked(calls[i])
       /\ calls[i].invoked[1].kwargs = DivideKwargs
       /\ calls[i].outcome.kind = "return"
       /\ calls[i].outcome.value # calls[i].df
  /\ \E j \in DOMAIN calls : Len(calls[j].df.rows) = 0

\* C5: on a bound component output_columns is exactly the one-element list
\* holding the parent's name, whatever the transformer, the keyword arguments
\* and the transform calls made before.
C5_OutputColumnsIsParentName ==
  (last.op = "output_columns" /\ Bound)
    => (last.error = "" /\ last.cols = <<ParentName(_parent)>>)

C5_Witness == last.op = "output_columns" /\ Bound /\ Len(calls) > 1

\* C6 (as amended): when the transformer raises, transform fails with the
\* transformer's own error, propagated unchanged and unwrapped; no dataset is
\* returned.
C6_ErrorPropagatedBare ==
  \A i \in DOMAIN calls :
    (Invoked(calls[i]) /\ calls[i].invoked[1].outcome.kind = "raise")
      => calls[i].outcome = calls[i].invoked[1].outcome

\* C6 (as stated): when the transformer raises, transform fails with
\* TransformExecutionError carrying the bound feature's name.
C6_ErrorWrappedWithFeatureName ==
  \A i \in DOMAIN calls :
    (Invoked(calls[i]) /\ calls[i].invoked[1].outcome.kind = "raise")
      => /\ calls[i].outcome.kind = "raise"
         /\ calls[i].outcome.error =
              [type |-> "TransformExecutionError", feature |-> ParentName(_parent)]

C6_Witness ==
  \E i \in DOMAIN calls :
    /\ Invoked(calls[i])
    /\ calls[i].invoked[1].outcome.error.type = "RuntimeError"

\* C7 (as amended): every transform call passes the transformer the keyword
\* mapping currently stored on the instance; as long as that mapping has been
\* neither mutated nor replaced since construction, these are exactly the
\* pairs given to the constructor.
C7_KwargsReplayedWhileUntouched ==
  \A i \in DOMAIN calls :
    Invoked(calls[i]) =>
      /\ calls[i].invoked[1].kwargs = transformer__kwargs
      /\ ~kwargsTouched => calls[i].invoked[1].kwargs = ctorKwargs

\* C7 (as stated): after any operations, mutating or replacing the exposed
\* mapping included, every transform call passes the transformer exactly the
\* pairs given to the constructor.
C7_KwargsAlwaysThoseOfConstruction ==
  \A i \in DOMAIN calls :
    Invoked(calls[i]) => calls[i].invoked[1].kwargs = ctorKwargs

C7_Witness ==
  /\ ~kwargsTouched /\ ctorKwargs = DivideKwargs /\ Len(calls) > 1
  /\ \A i \in DOMAIN calls :
       Invoked(calls[i]) /\ calls[i].invoked[1].kwargs = DivideKwargs

\* C8: on a bound component with a deterministic transformer, two transform
\* calls on the same dataset, with only transform calls between them, have
\* the same result.
C8_IdempotentReplay ==
  (Bound /\ Deterministic(_transformer)) =>
    \A i, j \in DOMAIN calls :
      calls[i].df = calls[j].df => calls[i].outcome = calls[j].outcome

C8_Witness ==
  /\ Bound /\ _transformer = "divide" /\ Len(calls) = 3
  /\ calls[1].df = calls[3].df /\ calls[2].df # calls[1].df
  /\ Len(calls[1].df.rows) > 0
  /\ calls[3].outcome.kind = "return"

C10_TransformKeepsComponent ==
  [][/\ _parent # None => _parent' # None
     /\ last'.op = "transform"
          => /\ _parent' = _parent
             /\ _transformer' = _transformer
             /\ transformer__kwargs' = transformer__kwargs]_vars

C10_Witness ==
  /\ Bound /\ last.op = "transform" /\ last.error = "RuntimeError"
  /\ Len(calls) > 1
====
